---- MODULE Spec2Model ----
(***************************************************************************)
(* The streaming chat session of the hackathon assistant web UI:           *)
(* pages/Index.tsx (prompt selection / chat view), the stream-based        *)
(* components/ChatInterface.tsx (transcript, isProcessing, connection      *)
(* state, one EventSource per sendMessage), components/InputArea.tsx (the  *)
(* draft and its submit guard) and lib/api.ts (getResponseStream,          *)
(* fetchStarterPrompts).                                                   *)
(*                                                                         *)
(* Every handler runs to completion (single-threaded event loop), so each  *)
(* handler is one action.  Text is a sequence of one-character strings.    *)
(***************************************************************************)
EXTENDS Naturals, Sequences, FiniteSets

\* ------------------------------------------------------------------ bounds

\* accepted sendMessage calls over the whole run
MaxTurns == 2
\* stream frames delivered over the whole run
MaxFrames == 2
\* times the chat view is mounted over the whole run
MaxMounts == 2

\* ------------------------------------------------------------------ inputs

\* what the user can type or a starter prompt can hold
Texts == { <<>>, <<" ">>, <<" ", "a">> }
\* content fragments a well-formed frame can carry (<<>>: empty or absent)
DeltaTexts == { <<"x">>, <<"y">> }
\* event.data of one server-sent frame: JSON text that parses to an object
\* with a content field, or text that JSON.parse rejects
Frames ==
    [wellFormed : {TRUE}, content : DeltaTexts \cup {<<>>}]
        \cup {[wellFormed |-> FALSE, content |-> <<>>]}

\* selectedPrompt before any prompt was selected
Null == <<"null">>

\* the prompt list a successful starter-prompt fetch can carry
Catalog ==
    << [title |-> "t", description |-> "d",
        prompts |-> << [text |-> <<>>], [text |-> <<" ">>],
                       [text |-> <<" ", "a">>] >>] >>
\* what fetch(/starter-prompts) can come to: the request is rejected (network
\* error), the response is not OK, or it is OK and its JSON body has a
\* prompts field or has none
Responses ==
    { [rejected |-> TRUE, ok |-> FALSE, hasPrompts |-> FALSE, prompts |-> <<>>],
      [rejected |-> FALSE, ok |-> FALSE, hasPrompts |-> FALSE, prompts |-> <<>>],
      [rejected |-> FALSE, ok |-> TRUE, hasPrompts |-> FALSE, prompts |-> <<>>],
      [rejected |-> FALSE, ok |-> TRUE, hasPrompts |-> TRUE, prompts |-> <<>>],
      [rejected |-> FALSE, ok |-> TRUE, hasPrompts |-> TRUE, prompts |-> Catalog] }

\* 'Reconnecting...' and 'Could not connect to server'
ReconnectingText == <<"R", "e", "c", "o", "n", "n", "e", "c", "t", "i", "n", "g">>
CouldNotConnectText == <<"C", "o", "u", "l", "d", " ", "n", "o", "t">>

\* ------------------------------------------------------------------- state

VARIABLES
    showPrompts,      \* Index: the prompt-selection view is shown
    selectedPrompt,   \* Index: the prompt handed to ChatInterface
    promptCategories, \* Index: the starter-prompt catalog
    promptsResponse,  \* history: <<>> while the starter-prompt fetch is
                      \* outstanding, then <<what it came to>>
    messages,         \* ChatInterface: the transcript
    isProcessing,     \* ChatInterface
    connectionState,  \* ChatInterface
    message,          \* InputArea: the draft
    eventSources,     \* every EventSource created so far, in creation order;
                      \* history fields: delivered (the non-empty deltas of the
                      \* well-formed frames received, in order) and droppedAt
                      \* (0, or 1 + the number of deltas received before the
                      \* latest frame that failed to parse)
    nextId,           \* uuidv4(): the next fresh identifier
    mountId,          \* which ChatInterface instance is (or was last) mounted
    frames,           \* history: frames delivered so far
    calls,            \* history: arguments of the mounted instance's sendMessage calls
    cleared,          \* history: clearChat ran in the mounted instance
    reconnects,       \* the instances whose retryConnection timer is pending
    failures          \* history: failures surfaced since the view changed (an
                      \* exception leaving a handler, a destructive toast)

vars == <<showPrompts, selectedPrompt, promptCategories, promptsResponse,
          messages, isProcessing, connectionState, message, eventSources,
          nextId, mountId, frames, calls, cleared, reconnects, failures>>

\* what only the starter-prompt loader and the reconnect timer touch
indexVars == <<promptCategories, promptsResponse, reconnects>>

\* ----------------------------------------------------------------- helpers

IsWhitespace(c) == c = " "

RECURSIVE TrimStart(_)
TrimStart(s) ==
    IF s # <<>> /\ IsWhitespace(Head(s)) THEN TrimStart(Tail(s)) ELSE s

RECURSIVE TrimEnd(_)
TrimEnd(s) ==
    IF s # <<>> /\ IsWhitespace(s[Len(s)])
    THEN TrimEnd(SubSeq(s, 1, Len(s) - 1))
    ELSE s

\* a trim that removes nothing
Trim_Identity(s) == s

\* String.prototype.trim
Trim(s) == TrimEnd(TrimStart(s))

\* JavaScript truthiness of a string | null
Truthy(s) == s # Null /\ s # <<>>

InitialConnectionState == [status |-> "connected", message |-> <<>>]

\* the ChatInterface instance that created the stream is still mounted, so
\* its state setters still have an effect
Mounted(owner) == ~showPrompts /\ owner = mountId

\* an append that puts the new message first
AppendMessage_Prepend(prev, m) == <<m>> \o prev

\* setMessages(prev => [...prev, m])
AppendMessage(prev, m) == Append(prev, m)

\* a status update that moves the updated message to the end
SetStatus_MoveToEnd(prev, id, status) ==
    SelectSeq(prev, LAMBDA m : m.id # id)
        \o [k \in 1..Len(SelectSeq(prev, LAMBDA m : m.id = id)) |->
               [SelectSeq(prev, LAMBDA m : m.id = id)[k] EXCEPT !.status = status]]

\* a status update that is lost
SetStatus_Lost(prev, id, status) == prev

\* setMessages(prev => prev.map(msg => msg.id === id ? {...msg, status} : msg))
SetStatus(prev, id, status) ==
    [k \in 1..Len(prev) |->
        IF prev[k].id = id THEN [prev[k] EXCEPT !.status = status] ELSE prev[k]]

\* a content update that creates the message when no message has the id
SetContent_Upsert(prev, id, content) ==
    IF \E k \in 1..Len(prev) : prev[k].id = id
    THEN [k \in 1..Len(prev) |->
            IF prev[k].id = id
            THEN [prev[k] EXCEPT !.content = content, !.status = "streaming"]
            ELSE prev[k]]
    ELSE Append(prev, [id |-> id, role |-> "assistant", content |-> content,
                       status |-> "streaming"])

\* a content update that goes to every message that is streaming
SetContent_AllStreaming(prev, id, content) ==
    [k \in 1..Len(prev) |->
        IF prev[k].status = "streaming"
        THEN [prev[k] EXCEPT !.content = content]
        ELSE prev[k]]

\* a content update that marks the message sent while it accumulates
SetContent_CoerceSent(prev, id, content) ==
    [k \in 1..Len(prev) |->
        IF prev[k].id = id
        THEN [prev[k] EXCEPT !.content = content, !.status = "sent"]
        ELSE prev[k]]

\* setMessages(prev => prev.map(msg => msg.id === id
\*     ? {...msg, content, status: 'streaming'} : msg))
SetContent(prev, id, content) ==
    [k \in 1..Len(prev) |->
        IF prev[k].id = id
        THEN [prev[k] EXCEPT !.content = content, !.status = "streaming"]
        ELSE prev[k]]

\* an accumulation that keeps only the latest fragment
Accumulate_Replace(accumulatedContent, content) == content

\* accumulatedContent += data.content
Accumulate(accumulatedContent, content) == accumulatedContent \o content

\* onmessage: JSON.parse(event.data) did not throw and data.content is truthy
Applied(frame) == frame.wellFormed /\ frame.content # <<>>

\* an onmessage that gives the stream up on a frame that fails to parse
AfterFrame_AbortOnMalformed(es, frame) ==
    [es EXCEPT
        !.readyState = IF frame.wellFormed THEN @ ELSE "closed",
        !.accumulatedContent =
            IF frame.wellFormed /\ frame.content # <<>> THEN @ \o frame.content ELSE @]

\* onmessage, the handler's closure: a frame that is applied is added to
\* accumulatedContent; the connection stays as it is
AfterFrame(es, frame) ==
    [es EXCEPT
        !.accumulatedContent =
            IF Applied(frame) THEN Accumulate(@, frame.content) ELSE @]

\* an eventSource.close() that leaves the connection open
Close_Noop(es) == es

\* eventSource.close()
Close(es) == [es EXCEPT !.readyState = "closed"]

\* a getResponseStream that reuses a connection that has been closed
GetResponseStream_Reuse(sources, es) ==
    IF \E i \in 1..Len(sources) : sources[i].readyState = "closed"
    THEN [sources EXCEPT
             ![CHOOSE i \in 1..Len(sources) : sources[i].readyState = "closed"] = es]
    ELSE Append(sources, es)

\* getResponseStream: new EventSource(url), a connection of its own
GetResponseStream(sources, es) == Append(sources, es)

\* the prompt texts StarterPrompts renders as buttons
PromptTexts(categories) ==
    UNION { {categories[c].prompts[n].text : n \in DOMAIN categories[c].prompts} :
            c \in DOMAIN categories }

\* a loader without the catch: a failed fetch leaves the handler as an exception
LoadPromptsResult_NoCatch(response) ==
    IF response.rejected \/ ~response.ok
    THEN [categories |-> <<>>, thrown |-> TRUE]
    ELSE [categories |-> IF response.hasPrompts THEN response.prompts ELSE <<>>,
          thrown |-> FALSE]

\* Index.loadPrompts: what setPromptCategories receives, and whether an
\* exception leaves the loader.  fetch rejecting and fetchStarterPrompts
\* throwing on a non-OK response both end in the catch; data.prompts || []
\* covers a body without a prompt list
LoadPromptsResult(response) ==
    IF response.rejected \/ ~response.ok
    THEN [categories |-> <<>>, thrown |-> FALSE]
    ELSE [categories |-> IF response.hasPrompts THEN response.prompts ELSE <<>>,
          thrown |-> FALSE]

\* an onerror that marks the whole turn, the user message included, as failed
ResolveOnError_FailTurn(prev, assistantId) ==
    [k \in 1..Len(prev) |->
        IF prev[k].id = assistantId \/ prev[k].id = assistantId - 1
        THEN [prev[k] EXCEPT !.status = "error"]
        ELSE prev[k]]

\* an onerror that removes the placeholder instead of resolving it
ResolveOnError_Remove(prev, assistantId) ==
    SelectSeq(prev, LAMBDA m : m.id # assistantId)

\* an onerror that throws the partial content away
ResolveOnError_Discard(prev, assistantId) ==
    [k \in 1..Len(prev) |->
        IF prev[k].id = assistantId
        THEN [prev[k] EXCEPT !.status = "sent", !.content = <<>>]
        ELSE prev[k]]

\* onerror: setMessages(prev => prev.map(msg =>
\*     msg.id === assistantId ? {...msg, status: 'sent'} : msg))
ResolveOnError(prev, assistantId) == SetStatus(prev, assistantId, "sent")

\* ------------------------------------------------------------------- Init

Init ==
    /\ showPrompts = TRUE
    /\ selectedPrompt = Null
    /\ messages = <<>>
    /\ isProcessing = FALSE
    /\ connectionState = InitialConnectionState
    /\ message = <<>>
    /\ eventSources = <<>>
    /\ nextId = 1
    /\ mountId = 0
    /\ frames = 0
    /\ calls = <<>>
    /\ cleared = FALSE
    /\ promptCategories = <<>>
    /\ promptsResponse = <<>>
    /\ reconnects = {}
    /\ failures = 0

\* ---------------------------------------------------------------- actions

\* ChatInterface.sendMessage(content) of the instance `owner`.  No await: the
\* whole body, the finally included, runs in one go.  getResponseStream
\* either returns a new EventSource or throws (the catch only shows a toast).
SendMessage(content, owner) ==
    IF Trim(content) = <<>>
    THEN UNCHANGED <<messages, isProcessing, connectionState, eventSources, nextId,
                     failures>>
    ELSE
        LET messageId == nextId
            assistantId == nextId + 1
            userMessage == [id |-> messageId, role |-> "user",
                            content |-> content, status |-> "sending"]
            placeholder == [id |-> assistantId, role |-> "assistant",
                            content |-> <<>>, status |-> "streaming"]
        IN  /\ nextId < 2 * MaxTurns
            /\ nextId' = nextId + 2
            /\ messages' =
                 AppendMessage(
                    SetStatus(AppendMessage(messages, userMessage), messageId, "sent"),
                    placeholder)
            \* setIsProcessing(true) before the try, setIsProcessing(false) in
            \* the finally that the return inside the try runs through
            /\ isProcessing' = FALSE
            /\ UNCHANGED connectionState
            /\ \/ /\ eventSources' = GetResponseStream(eventSources,
                         [owner |-> owner, messageId |-> messageId,
                          assistantId |-> assistantId,
                          content |-> content, readyState |-> "open",
                          accumulatedContent |-> <<>>,
                          delivered |-> <<>>, droppedAt |-> 0])
                  /\ UNCHANGED failures
               \/ /\ UNCHANGED eventSources
                  /\ failures' = failures + 1

\* Index.loadPrompts, from the arrival of the fetch's outcome on
LoadPrompts(response) ==
    /\ promptsResponse = <<>>
    /\ promptsResponse' = <<response>>
    /\ promptCategories' = LoadPromptsResult(response).categories
    /\ failures' = failures + (IF LoadPromptsResult(response).thrown THEN 1 ELSE 0)
    /\ UNCHANGED <<showPrompts, selectedPrompt, messages, isProcessing,
                   connectionState, message, eventSources, nextId, mountId,
                   frames, calls, cleared, reconnects>>

\* Index.handlePromptSelect(prompt), for a prompt StarterPrompts shows: the
\* chat view mounts with fresh state and its initial-prompt effect runs
HandlePromptSelect(prompt) ==
    /\ showPrompts
    /\ prompt \in PromptTexts(promptCategories)
    /\ mountId < MaxMounts
    /\ selectedPrompt' = prompt
    /\ showPrompts' = FALSE
    /\ mountId' = mountId + 1
    /\ IF Truthy(prompt)
       THEN /\ SendMessage(prompt, mountId + 1)
            /\ calls' = <<prompt>>
       ELSE UNCHANGED <<messages, isProcessing, connectionState, eventSources,
                        nextId, calls, failures>>
    /\ UNCHANGED <<message, frames, cleared, indexVars>>

\* a reset after which the transcript outlives the chat view
OnReset_KeepTranscript ==
    /\ ~showPrompts
    /\ showPrompts' = TRUE
    /\ isProcessing' = FALSE
    /\ connectionState' = InitialConnectionState
    /\ message' = <<>>
    /\ calls' = <<>>
    /\ cleared' = FALSE
    /\ failures' = 0
    /\ UNCHANGED <<messages, selectedPrompt, eventSources, nextId, mountId, frames,
                   indexVars>>

\* Index onReset ('Back to prompts'): the chat view unmounts and its state is
\* dropped; ChatInterface registers no unmount cleanup
OnReset ==
    /\ ~showPrompts
    /\ showPrompts' = TRUE
    /\ messages' = <<>>
    /\ isProcessing' = FALSE
    /\ connectionState' = InitialConnectionState
    /\ message' = <<>>
    /\ calls' = <<>>
    /\ cleared' = FALSE
    /\ failures' = 0
    /\ UNCHANGED <<selectedPrompt, eventSources, nextId, mountId, frames, indexVars>>

\* InputArea.handleTextareaChange
HandleTextareaChange(text) ==
    /\ ~showPrompts
    /\ ~(connectionState.status # "connected" \/ isProcessing)
    /\ message' = text
    /\ UNCHANGED <<showPrompts, selectedPrompt, messages, isProcessing,
                   connectionState, eventSources, nextId, mountId, frames, calls,
                   cleared, indexVars, failures>>

\* a handleSubmit that does not look at the disabled prop
HandleSubmit_IgnoreDisabled ==
    /\ ~showPrompts
    /\ IF Trim(message) # <<>> /\ ~isProcessing
       THEN /\ SendMessage(message, mountId)
            /\ calls' = Append(calls, message)
            /\ message' = <<>>
       ELSE UNCHANGED <<messages, isProcessing, connectionState, eventSources,
                        nextId, message, calls, failures>>
    /\ UNCHANGED <<showPrompts, selectedPrompt, mountId, frames, cleared, indexVars>>

\* InputArea.handleSubmit (Enter, or the send button)
HandleSubmit ==
    /\ ~showPrompts
    /\ IF Trim(message) # <<>> /\ ~isProcessing /\ connectionState.status = "connected"
       THEN /\ SendMessage(message, mountId)
            /\ calls' = Append(calls, message)
            /\ message' = <<>>
       ELSE UNCHANGED <<messages, isProcessing, connectionState, eventSources,
                        nextId, message, calls, failures>>
    /\ UNCHANGED <<showPrompts, selectedPrompt, mountId, frames, cleared, indexVars>>

\* a clearChat that also puts Connection State back to its initial value
ClearChat_ResetConnection ==
    /\ ~showPrompts
    /\ Len(messages) > 0
    /\ messages' = <<>>
    /\ cleared' = TRUE
    /\ connectionState' = InitialConnectionState
    /\ UNCHANGED <<showPrompts, selectedPrompt, isProcessing,
                   message, eventSources, nextId, mountId, frames, calls,
                   indexVars, failures>>

\* ChatInterface.clearChat (the button is rendered when messages.length > 0)
ClearChat ==
    /\ ~showPrompts
    /\ Len(messages) > 0
    /\ messages' = <<>>
    /\ cleared' = TRUE
    /\ UNCHANGED <<showPrompts, selectedPrompt, isProcessing, connectionState,
                   message, eventSources, nextId, mountId, frames, calls,
                   indexVars, failures>>

\* eventSource.onmessage of the i-th EventSource, for one frame
OnMessage(i, frame) ==
    LET es == eventSources[i]
    IN  /\ es.readyState = "open"
        /\ frames < MaxFrames
        /\ frames' = frames + 1
        /\ eventSources' = [eventSources EXCEPT ![i] =
              [AfterFrame(es, frame) EXCEPT
                  !.delivered =
                      IF frame.wellFormed /\ frame.content # <<>>
                      THEN Append(@, frame.content) ELSE @,
                  !.droppedAt =
                      IF frame.wellFormed THEN @ ELSE Len(es.delivered) + 1]]
        /\ messages' =
              IF Applied(frame) /\ Mounted(es.owner)
              THEN SetContent(messages, es.assistantId,
                              AfterFrame(es, frame).accumulatedContent)
              ELSE messages
        /\ UNCHANGED <<showPrompts, selectedPrompt, isProcessing, connectionState,
                       message, nextId, mountId, calls, cleared, indexVars,
                       failures>>

\* eventSource.onerror of the i-th EventSource.  The browser fires the error
\* event for a transport failure and also when the server ends the response
\* (an EventSource has no end-of-stream event): both run this one handler
OnError(i) ==
    LET es == eventSources[i]
    IN  /\ es.readyState = "open"
        /\ eventSources' = [eventSources EXCEPT ![i] = Close(es)]
        /\ IF Mounted(es.owner)
           THEN /\ messages' = ResolveOnError(messages, es.assistantId)
                /\ isProcessing' = FALSE
           ELSE UNCHANGED <<messages, isProcessing>>
        /\ UNCHANGED <<showPrompts, selectedPrompt, connectionState, message,
                       nextId, mountId, frames, calls, cleared, indexVars,
                       failures>>

\* a retryConnection that also sends the first message again
RetryConnection_Resend ==
    /\ ~showPrompts
    /\ connectionState.status = "error"
    /\ connectionState' = [status |-> "loading", message |-> ReconnectingText]
    /\ reconnects' = reconnects \cup {mountId}
    /\ messages' = IF messages = <<>> THEN messages ELSE Append(messages, messages[1])
    /\ UNCHANGED <<showPrompts, selectedPrompt, promptCategories, promptsResponse,
                   isProcessing, message, eventSources, nextId,
                   mountId, frames, calls, cleared, failures>>

\* ChatInterface.retryConnection (the Reconnect button of the error banner,
\* which is rendered only while connectionState.status is 'error')
RetryConnection ==
    /\ ~showPrompts
    /\ connectionState.status = "error"
    /\ connectionState' = [status |-> "loading", message |-> ReconnectingText]
    /\ reconnects' = reconnects \cup {mountId}
    /\ UNCHANGED <<showPrompts, selectedPrompt, promptCategories, promptsResponse,
                   messages, isProcessing, message, eventSources, nextId,
                   mountId, frames, calls, cleared, failures>>

\* a timer callback that changes the status and keeps the message
ReconnectElapsed_KeepMessage(owner) ==
    /\ owner \in reconnects
    /\ reconnects' = reconnects \ {owner}
    /\ connectionState' =
          IF Mounted(owner) THEN [connectionState EXCEPT !.status = "connected"]
          ELSE connectionState
    /\ UNCHANGED <<showPrompts, selectedPrompt, promptCategories, promptsResponse,
                   messages, isProcessing, message, eventSources, nextId,
                   mountId, frames, calls, cleared, failures>>

\* the setTimeout callback of retryConnection, 1500 ms later
ReconnectElapsed(owner) ==
    /\ owner \in reconnects
    /\ reconnects' = reconnects \ {owner}
    /\ connectionState' =
          IF Mounted(owner) THEN [status |-> "connected", message |-> <<>>]
          ELSE connectionState
    /\ UNCHANGED <<showPrompts, selectedPrompt, promptCategories, promptsResponse,
                   messages, isProcessing, message, eventSources, nextId,
                   mountId, frames, calls, cleared, failures>>

\* the handlers that can run once the starter prompts are there
ChatNext ==
    \/ \E prompt \in Texts : HandlePromptSelect(prompt)
    \/ OnReset
    \/ \E text \in Texts : HandleTextareaChange(text)
    \/ HandleSubmit
    \/ ClearChat
    \/ \E i \in 1..Len(eventSources) : \E frame \in Frames : OnMessage(i, frame)
    \/ \E i \in 1..Len(eventSources) : OnError(i)

Next ==
    \/ \E response \in Responses : LoadPrompts(response)
    \/ ChatNext

Spec == Init /\ [][Next]_vars

\* No handler of the stream-based ChatInterface sets connectionState to
\* 'error', so the Reconnect button never exists in a behaviour of Spec.
\* retryConnection is therefore exercised from the states in which the banner
\* is shown: a mounted chat whose first turn is in flight or has ended, with
\* connectionState as the error branch of the mock-based variant sets it
\* and the draft the user had typed by then.
RetryInit ==
    /\ showPrompts = FALSE
    /\ selectedPrompt = <<" ", "a">>
    /\ promptCategories = Catalog
    /\ promptsResponse =
          <<[rejected |-> FALSE, ok |-> TRUE, hasPrompts |-> TRUE, prompts |-> Catalog]>>
    /\ \E readyState \in {"open", "closed"} :
          /\ messages =
                << [id |-> 1, role |-> "user", content |-> <<" ", "a">>,
                    status |-> "sent"],
                   [id |-> 2, role |-> "assistant", content |-> <<>>,
                    status |-> IF readyState = "open" THEN "streaming" ELSE "sent"] >>
          /\ eventSources =
                << [owner |-> 1, messageId |-> 1, assistantId |-> 2,
                    content |-> <<" ", "a">>, readyState |-> readyState,
                    accumulatedContent |-> <<>>, delivered |-> <<>>,
                    droppedAt |-> 0] >>
    /\ isProcessing = FALSE
    /\ connectionState = [status |-> "error", message |-> CouldNotConnectText]
    /\ message \in {<<>>, <<" ", "a">>}
    /\ nextId = 3
    /\ mountId = 1
    /\ frames = 0
    /\ calls = << <<" ", "a">> >>
    /\ cleared = FALSE
    /\ reconnects = {}
    /\ failures = 0

RetryNext ==
    \/ ChatNext
    \/ RetryConnection
    \/ \E owner \in reconnects : ReconnectElapsed(owner)

RetrySpec == RetryInit /\ [][RetryNext]_vars

\* ------------------------------------------------- vocabulary of the claims

Sources == 1..Len(eventSources)

\* the EventSources that are open and not yet closed
OpenSources == {i \in Sources : eventSources[i].readyState = "open"}

\* the open EventSources created by the mounted ChatInterface instance
SessionOpenSources == {i \in OpenSources : Mounted(eventSources[i].owner)}

\* positions of the i-th EventSource's assistant placeholder in the transcript
PlaceholderAt(i) ==
    {k \in 1..Len(messages) : messages[k].id = eventSources[i].assistantId}

\* the text is empty or consists of whitespace only
AllBlank(text) == \A k \in 1..Len(text) : text[k] = " "

\* d1 + d2 + ... + dn, in delivery order
RECURSIVE Concat(_)
Concat(ds) ==
    IF ds = <<>> THEN <<>> ELSE Head(ds) \o Concat(Tail(ds))

\* a turn of the mounted instance is in flight: its stream is open and its
\* placeholder is still streaming
InFlight ==
    \E i \in SessionOpenSources :
        \E k \in PlaceholderAt(i) : messages[k].status = "streaming"

\* the step delivers a well-formed delta to the i-th EventSource
DeliversDelta(i) ==
    /\ i \in OpenSources
    /\ frames' = frames + 1
    /\ Len(eventSources'[i].delivered) = Len(eventSources[i].delivered) + 1

\* the step delivers a frame that carries no delta: one that fails to parse,
\* or one without content
DeliversNoDelta ==
    /\ frames' = frames + 1
    /\ \A i \in Sources :
          eventSources'[i].delivered = eventSources[i].delivered

\* the step is the error event of the i-th EventSource
Errors(i) ==
    /\ i \in OpenSources
    /\ Len(eventSources') = Len(eventSources)
    /\ eventSources'[i].readyState = "closed"

\* ------------------------------------------------------------------ claims

\* C1: in every reachable state at most one EventSource of the session is
\* open and not yet closed.
C1_AtMostOneOpenStream == Cardinality(SessionOpenSources) <= 1

\* C2: a submission of non-blank text while a turn is in flight is a no-op:
\* the transcript is unchanged and no second stream is opened.
C2_SendWhileInFlightIsNoOp ==
    [][(InFlight /\ ~AllBlank(message) /\ HandleSubmit)
          => UNCHANGED <<messages, eventSources>>]_vars

\* C3: in every reachable state the content of a turn's assistant placeholder
\* equals the concatenation, in delivery order, of the well-formed deltas its
\* stream has delivered so far (so after the k-th delta it is d1+...+dk).
C3_ContentIsConcatenation ==
    \A i \in Sources :
        Mounted(eventSources[i].owner) =>
            \A k \in PlaceholderAt(i) :
                messages[k].content = Concat(eventSources[i].delivered)

C3_Witness ==
    \E i \in Sources :
        /\ Mounted(eventSources[i].owner)
        /\ Len(eventSources[i].delivered) >= 2
        /\ eventSources[i].delivered[1] # eventSources[i].delivered[2]
        /\ \E k \in PlaceholderAt(i) :
              messages[k].content = Concat(eventSources[i].delivered)

\* C4: after a stream has delivered at least one delta and then errored, its
\* placeholder has status sent and its content is the concatenation of the
\* deltas received before the error.
C4_PartialContentPreserved ==
    \A i \in Sources :
        ( /\ Mounted(eventSources[i].owner)
          /\ eventSources[i].readyState = "closed"
          /\ eventSources[i].delivered # <<>> )
        => \A k \in PlaceholderAt(i) :
              /\ messages[k].status = "sent"
              /\ messages[k].content = Concat(eventSources[i].delivered)

C4_Witness ==
    \E i \in Sources :
        /\ Mounted(eventSources[i].owner)
        /\ eventSources[i].readyState = "closed"
        /\ eventSources[i].delivered # <<>>
        /\ \E k \in PlaceholderAt(i) :
              /\ messages[k].status = "sent"
              /\ messages[k].content # <<>>

\* C5: after a stream has errored before any delta was applied, its
\* placeholder has status error and empty content.
C5_ErrorBeforeDeltaIsError ==
    \A i \in Sources :
        ( /\ Mounted(eventSources[i].owner)
          /\ eventSources[i].readyState = "closed"
          /\ eventSources[i].delivered = <<>> )
        => \A k \in PlaceholderAt(i) :
              /\ messages[k].status = "error"
              /\ messages[k].content = <<>>

\* C6: when the only sendMessage(t) of a session had non-blank t, started
\* from the empty transcript, and its stream has ended, the transcript is
\* exactly: user/sent/t, assistant/sent/<the accumulated deltas>.
C6_TurnCompletes ==
    \A i \in Sources :
        ( /\ Mounted(eventSources[i].owner)
          /\ eventSources[i].readyState = "closed"
          /\ Len(calls) = 1
          /\ ~AllBlank(calls[1])
          /\ ~cleared )
        => /\ Len(messages) = 2
           /\ messages[1].role = "user"
           /\ messages[1].status = "sent"
           /\ messages[1].content = calls[1]
           /\ messages[2].role = "assistant"
           /\ messages[2].status = "sent"
           /\ messages[2].content = Concat(eventSources[i].delivered)

C6_Witness ==
    \E i \in Sources :
        /\ Mounted(eventSources[i].owner)
        /\ eventSources[i].readyState = "closed"
        /\ Len(calls) = 1
        /\ ~AllBlank(calls[1])
        /\ ~cleared
        /\ Len(eventSources[i].delivered) >= 2
        /\ Len(messages) = 2
        /\ messages[2].content = Concat(eventSources[i].delivered)

\* C7: sendMessage with empty or whitespace-only text changes nothing: the
\* transcript, isProcessing and Connection State are unchanged and no stream
\* is opened; and while the draft is blank no step of the chat view appends
\* a message or opens a stream.
C7_BlankSendIsNoOp ==
    [][ /\ \A text \in Texts :
              (AllBlank(text) /\ calls' = Append(calls, text))
                  => /\ UNCHANGED <<messages, connectionState, eventSources>>
                     /\ isProcessing = FALSE
                     /\ isProcessing' = FALSE
        /\ (~showPrompts /\ AllBlank(message))
              => /\ Len(messages') <= Len(messages)
                 /\ Len(eventSources') = Len(eventSources)
      ]_vars

C7_Witness ==
    /\ ~showPrompts
    /\ Len(calls) = 1
    /\ calls[1] # <<>>
    /\ AllBlank(calls[1])
    /\ messages = <<>>
    /\ eventSources = <<>>

\* C8: a frame that fails to parse is dropped: it changes neither the
\* transcript nor the accumulated content nor the connection, which stays
\* open; and a well-formed delta that arrives after it is still appended to
\* the placeholder.
C8_MalformedFrameDropped ==
    [][ /\ DeliversNoDelta =>
              /\ UNCHANGED <<messages, isProcessing, connectionState>>
              /\ \A i \in Sources :
                    /\ eventSources'[i].readyState = eventSources[i].readyState
                    /\ eventSources'[i].accumulatedContent =
                           eventSources[i].accumulatedContent
        /\ \A i \in Sources :
              ( /\ DeliversDelta(i)
                /\ eventSources[i].droppedAt > 0
                /\ Mounted(eventSources[i].owner) )
              => \A k \in PlaceholderAt(i) :
                    /\ Len(messages') = Len(messages)
                    /\ messages'[k].content =
                           messages[k].content
                              \o eventSources'[i].delivered[Len(eventSources'[i].delivered)]
      ]_vars

C8_Witness ==
    \E i \in Sources :
        /\ Mounted(eventSources[i].owner)
        /\ eventSources[i].droppedAt = 1
        /\ Len(eventSources[i].delivered) = 1
        /\ eventSources[i].readyState = "open"
        /\ \E k \in PlaceholderAt(i) :
              messages[k].content = eventSources[i].delivered[1]

\* C9: no connection is left open once its controller no longer references
\* it: every open EventSource belongs to the mounted ChatInterface instance
\* (reset closes the in-flight stream before the instance goes away).
C9_NoOpenStreamWithoutController ==
    \A i \in OpenSources : Mounted(eventSources[i].owner)

\* C10: whenever a stream of the session reports an error, Connection State
\* becomes error with a non-empty user-facing message.
C10_ErrorIsSurfaced ==
    [][ \A i \in Sources :
          (Errors(i) /\ Mounted(eventSources[i].owner))
              => /\ connectionState'.status = "error"
                 /\ connectionState'.message # <<>>
      ]_vars

\* the callbacks the code schedules for itself (setTimeout): they run without
\* any server event or user gesture
TimerCallback == \E owner \in reconnects : ReconnectElapsed(owner)

\* a handler of the i-th EventSource addresses its placeholder although the
\* transcript of its (mounted) instance does not hold it
UpdateOfMissingId(i) ==
    /\ Mounted(eventSources[i].owner)
    /\ PlaceholderAt(i) = {}
    /\ DeliversDelta(i) \/ Errors(i)

\* a placeholder that is no longer streaming belongs to a closed connection
ResolvedOnlyWhenClosed ==
    \A i \in Sources :
        ( /\ Mounted(eventSources[i].owner)
          /\ \E k \in PlaceholderAt(i) : messages[k].status # "streaming" )
        => eventSources[i].readyState = "closed"

\* C11: no assistant placeholder in the transcript has status streaming
\* unless its own stream is live (open); a placeholder whose stream has
\* closed, failed or could not be opened is sent or error.
C11_NoStreamingWithoutLiveStream ==
    \A k \in 1..Len(messages) :
        (messages[k].role = "assistant" /\ messages[k].status = "streaming")
            => \E i \in SessionOpenSources :
                  eventSources[i].assistantId = messages[k].id

\* C12: a turn ends even when the server stays silent: whenever a stream of
\* the session is open with its placeholder streaming, a timeout is armed,
\* that is, a callback the code scheduled for itself is pending that fails
\* the stream without any further server event or user gesture.
C12_SilentStreamTimesOut ==
    \A i \in SessionOpenSources :
        (\E k \in PlaceholderAt(i) : messages[k].status = "streaming")
            => ENABLED (TimerCallback /\ eventSources'[i].readyState = "closed")

\* C13: isProcessing is true in every state in which a stream of the session
\* is open (between the accepted sendMessage and the stream's error or end).
C13_ProcessingWhileInFlight ==
    SessionOpenSources # {} => isProcessing = TRUE

\* C14: retryConnection sets Connection State to loading and its timer sets
\* it to connected with an empty message; neither changes the transcript,
\* opens a stream or sends anything; and while Connection State is not
\* connected no step appends a message or opens a stream.
C14_RetryOnlyReconnects ==
    [][ /\ (reconnects # reconnects' /\ reconnects \subseteq reconnects')
            => /\ connectionState.status = "error"
               /\ connectionState'.status = "loading"
               /\ connectionState'.message # <<>>
               /\ UNCHANGED <<messages, eventSources, nextId, calls>>
        /\ (reconnects # reconnects' /\ reconnects' \subseteq reconnects)
            => /\ UNCHANGED <<messages, eventSources, nextId, calls>>
               /\ \A owner \in reconnects \ reconnects' :
                     Mounted(owner) =>
                        /\ connectionState.status = "loading"
                        /\ connectionState' = [status |-> "connected", message |-> <<>>]
        /\ connectionState.status # "connected"
            => /\ Len(messages') <= Len(messages)
               /\ Len(eventSources') = Len(eventSources)
               /\ calls' = calls \/ calls' = <<>>
      ]_vars

C14_Witness ==
    /\ ~showPrompts
    /\ mountId = 1
    /\ connectionState = [status |-> "connected", message |-> <<>>]
    /\ reconnects = {}
    /\ Len(calls) = 2
    /\ Len(messages) = 4

\* C15: the message ids of the transcript are pairwise distinct and the
\* transcript is in the order in which the messages were created (ids are
\* handed out in creation order), whatever updates were applied.
C15_IdsDistinctInAppendOrder ==
    \A j, k \in 1..Len(messages) : j < k => messages[j].id < messages[k].id

C15_Witness ==
    /\ Len(messages) = 4
    /\ messages[2].status = "sent"
    /\ messages[2].content # <<>>
    /\ messages[4].status = "streaming"
    /\ messages[4].content # <<>>

\* C16: an update addressed to an id that is not in the transcript fails
\* with an explicit failure surfaced to the user and leaves the transcript
\* unchanged; it is not silently ignored.
C16_MissingIdUpdateFails ==
    [][ \A i \in Sources :
          UpdateOfMissingId(i) => (failures' > failures /\ messages' = messages)
      ]_vars

\* C17: the transcript gets shorter only by clearChat or reset; any other
\* step keeps every message in place and every user message as it is; and
\* an accepted sendMessage(t) has put a user message with content t into
\* the transcript when it returns.
C17_MessagesNeverVanish ==
    [][ /\ ~(ClearChat \/ OnReset)
            => /\ Len(messages') >= Len(messages)
               /\ \A k \in 1..Len(messages) :
                     /\ messages'[k].id = messages[k].id
                     /\ messages[k].role = "user" => messages'[k] = messages[k]
        /\ \A text \in Texts :
              (~AllBlank(text) /\ calls' = Append(calls, text))
                  => \E k \in (Len(messages) + 1)..Len(messages') :
                        /\ messages'[k].role = "user"
                        /\ messages'[k].content = text
      ]_vars

C17_Witness ==
    /\ ~showPrompts
    /\ ~cleared
    /\ Len(messages) = 4
    /\ \E i, j \in Sources :
          /\ Mounted(eventSources[i].owner)
          /\ Mounted(eventSources[j].owner)
          /\ eventSources[i].readyState = "closed"
          /\ eventSources[j].droppedAt > 0

C19_FailedFetchGivesEmptyCatalog ==
    \A n \in 1..Len(promptsResponse) :
        ( \/ promptsResponse[n].rejected
          \/ ~promptsResponse[n].ok
          \/ ~promptsResponse[n].hasPrompts )
        => /\ promptCategories = <<>>
           /\ failures = 0
           /\ showPrompts

C19_Witness ==
    /\ promptsResponse # <<>>
    /\ promptsResponse[1].rejected \/ ~promptsResponse[1].ok
    /\ promptCategories = <<>>
    /\ showPrompts

\* C20 as claimed: a user message is marked sent only after the request of
\* its turn has been issued (its stream has been opened).
C20_SentOnlyAfterRequestIssued ==
    \A k \in 1..Len(messages) :
        (messages[k].role = "user" /\ messages[k].status = "sent")
            => \E i \in Sources : eventSources[i].messageId = messages[k].id

\* C20 as amended: sendMessage appends the user message and marks it sent,
\* then appends the placeholder, and only then issues the request: every
\* user message of the transcript is sent and directly followed by an
\* assistant message whether or not a stream was opened for it, and a step
\* that opens a stream has appended exactly that stream's user message
\* (sent) and placeholder (streaming), in this order.
C20_SentBeforeRequestIssued ==
    [][ /\ \A k \in 1..Len(messages') :
              messages'[k].role = "user"
                  => /\ messages'[k].status = "sent"
                     /\ k < Len(messages')
                     /\ messages'[k + 1].role = "assistant"
        /\ Len(eventSources') = Len(eventSources) + 1
              => LET es == eventSources'[Len(eventSources')]
                     n == Len(messages')
                 IN  /\ n = Len(messages) + 2
                     /\ messages'[n - 1].id = es.messageId
                     /\ messages'[n - 1].status = "sent"
                     /\ messages'[n].id = es.assistantId
                     /\ messages'[n].status = "streaming"
      ]_vars

C20_Witness ==
    /\ Len(messages) = 2
    /\ messages[1].role = "user"
    /\ messages[1].status = "sent"
    /\ messages[2].status = "streaming"
    /\ \A i \in Sources : eventSources[i].messageId # messages[1].id

\* the step is an accepted sendMessage: it appends to the transcript
Accepts == Len(messages') > Len(messages)

\* no two connections serve the same turn
OneStreamPerTurn ==
    \A i, j \in Sources :
        i # j => /\ eventSources[i].assistantId # eventSources[j].assistantId
                 /\ eventSources[i].messageId # eventSources[j].messageId

\* C21 as claimed: every accepted sendMessage opens exactly one new stream
\* connection, and a connection that has been closed is never reused or
\* reopened.
C21_OneNewStreamPerTurn ==
    [][ /\ Accepts => Len(eventSources') = Len(eventSources) + 1
        /\ \A i \in Sources :
              eventSources[i].readyState = "closed"
                  => /\ i <= Len(eventSources')
                     /\ eventSources'[i].readyState = "closed"
      ]_vars

\* C21 as amended: every accepted sendMessage makes exactly one attempt to
\* open a new stream connection: it opens one new connection for the two
\* messages of its turn, or none when the attempt throws (which is then
\* surfaced); no other step adds a connection, no two connections serve the
\* same turn, and a connection that has been closed is never reused or
\* reopened.
C21_OneAttemptPerTurn ==
    [][ /\ Accepts
            => \/ /\ Len(eventSources') = Len(eventSources) + 1
                  /\ failures' = failures
                  /\ LET es == eventSources'[Len(eventSources')]
                         n == Len(messages')
                     IN  /\ es.readyState = "open"
                         /\ es.messageId = messages'[n - 1].id
                         /\ es.assistantId = messages'[n].id
                         /\ es.content = messages'[n - 1].content
               \/ /\ Len(eventSources') = Len(eventSources)
                  /\ failures' = failures + 1
        /\ ~Accepts => Len(eventSources') = Len(eventSources)
        /\ \A i \in Sources :
              /\ i <= Len(eventSources')
              /\ eventSources'[i].messageId = eventSources[i].messageId
              /\ eventSources'[i].assistantId = eventSources[i].assistantId
              /\ eventSources'[i].owner = eventSources[i].owner
              /\ eventSources[i].readyState = "closed"
                    => eventSources'[i].readyState = "closed"
        /\ OneStreamPerTurn'
      ]_vars

C21_Witness ==
    /\ Len(messages) = 4
    /\ Len(eventSources) = 1
    /\ failures = 1
    /\ eventSources[1].readyState = "closed"
    /\ eventSources[1].assistantId = messages[2].id
    /\ messages[4].status = "streaming"

\* C22: an applied delta leaves its placeholder streaming, and an assistant
\* message whose status is sent or error keeps its status and its content
\* in every later step in which it stays in the transcript.
C22_StreamingUntilResolved ==
    [][ /\ \A i \in Sources :
              (DeliversDelta(i) /\ Mounted(eventSources[i].owner))
                  => \A k \in PlaceholderAt(i) :
                        /\ k <= Len(messages')
                        /\ messages'[k].id = messages[k].id
                        /\ messages'[k].status = "streaming"
                        /\ messages'[k].content # <<>>
        /\ \A k \in 1..Len(messages) :
              ( /\ messages[k].role = "assistant"
                /\ messages[k].status \in {"sent", "error"}
                /\ k <= Len(messages')
                /\ messages'[k].id = messages[k].id )
              => messages'[k] = messages[k]
      ]_vars

C22_Witness ==
    /\ Len(messages) = 4
    /\ messages[2].status = "sent"
    /\ messages[2].content # <<>>
    /\ messages[4].status = "streaming"
    /\ messages[4].content # <<>>
    /\ \E i \in Sources :
          /\ eventSources[i].assistantId = messages[2].id
          /\ eventSources[i].readyState = "closed"
          /\ messages[2].content = Concat(eventSources[i].delivered)

\* Connection State is well-formed: connected carries the empty message,
\* loading and error carry a non-empty one
MessageMatchesStatus ==
    /\ connectionState.status \in {"connected", "loading", "error"}
    /\ connectionState.status = "connected" <=> connectionState.message = <<>>

\* C23: a chat session starts with Connection State connected and an empty
\* message, and in every state connected implies the empty message while
\* loading and error carry a non-empty message.
C23_MessageMatchesStatus ==
    [][ /\ mountId' # mountId =>
              connectionState' = [status |-> "connected", message |-> <<>>]
        /\ MessageMatchesStatus
        /\ MessageMatchesStatus'
      ]_vars

C23_Witness ==
    /\ ~showPrompts
    /\ mountId = 1
    /\ reconnects = {}
    /\ connectionState = [status |-> "connected", message |-> <<>>]
    /\ Len(calls) = 1

\* C24: within a session Connection State changes only in a stream's error
\* event, in retryConnection or in its timer (reset ends the session, and
\* the next one starts anew); an accepted sendMessage, a delivered frame
\* (applied or dropped) and clearChat leave it unchanged.
C24_ConnectionStateFrame ==
    [][ /\ connectionState' # connectionState
            => \/ reconnects' # reconnects
               \/ \E i \in Sources : Errors(i)
               \/ ~showPrompts /\ showPrompts'
        /\ ( \/ Accepts
             \/ frames' # frames
             \/ ~showPrompts /\ ~showPrompts' /\ messages # <<>> /\ messages' = <<>> )
            => connectionState' = connectionState
      ]_vars

C24_Witness ==
    /\ ~showPrompts
    /\ mountId = 1
    /\ connectionState.status = "error"
    /\ cleared
    /\ frames = 2
    /\ \E i \in Sources : eventSources[i].droppedAt > 0

\* the step selects a starter prompt / is the reset
Selects == showPrompts /\ ~showPrompts'
Resets == ~showPrompts /\ showPrompts'

\* the step is an event of some stream: a frame or the error event
StreamEvent == frames' # frames \/ \E i \in Sources : Errors(i)

\* C25 as claimed: selecting a starter prompt P shows the chat view and
\* sends P exactly once, so that the transcript of the new session begins
\* with one user message with content P; reset shows the prompt selection
\* again and leaves an empty transcript, isProcessing false and Connection
\* State connected for the next session.
C25_PromptStartsSession ==
    [][ /\ Selects
            => /\ selectedPrompt' \in Texts
               /\ calls' = <<selectedPrompt'>>
               /\ Len(messages') = 2
               /\ messages'[1].role = "user"
               /\ messages'[1].content = selectedPrompt'
        /\ Resets
            => /\ messages' = <<>>
               /\ isProcessing' = FALSE
               /\ connectionState' = [status |-> "connected", message |-> <<>>]
      ]_vars

\* C25 as amended: selecting a non-blank starter prompt P shows the chat
\* view and sends P exactly once, so that the transcript of the new session
\* is one user message with content P and its placeholder; selecting an
\* empty or whitespace-only prompt shows the chat view with an empty
\* transcript and opens no stream; the session starts with isProcessing
\* false and Connection State connected, and reset shows the prompt
\* selection again and leaves an empty transcript.
C25_NonBlankPromptStartsSession ==
    [][ /\ Selects
            => /\ selectedPrompt' \in Texts
               /\ isProcessing' = FALSE
               /\ connectionState' = [status |-> "connected", message |-> <<>>]
               /\ IF AllBlank(selectedPrompt')
                  THEN /\ messages' = <<>>
                       /\ Len(eventSources') = Len(eventSources)
                  ELSE /\ calls' = <<selectedPrompt'>>
                       /\ Len(messages') = 2
                       /\ messages'[1].role = "user"
                       /\ messages'[1].content = selectedPrompt'
                       /\ messages'[2].role = "assistant"
                       /\ messages'[2].content = <<>>
        /\ Resets
            => /\ messages' = <<>>
               /\ isProcessing' = FALSE
               /\ connectionState' = [status |-> "connected", message |-> <<>>]
      ]_vars

C25_Witness ==
    /\ ~showPrompts
    /\ mountId = 2
    /\ calls = <<selectedPrompt>>
    /\ Len(messages) = 2
    /\ messages[1].id = 3
    /\ messages[1].content = selectedPrompt
    /\ Len(eventSources) = 2

\* C26: an event of a stream changes no message but that stream's own
\* placeholder: it changes no user message and no other turn's assistant
\* message, also when several streams of the session are live; and each
\* placeholder holds the concatenation of the deltas of its own stream.
C26_EventsStayInTheirTurn ==
    [][ /\ StreamEvent
            => /\ Len(messages') = Len(messages)
               /\ \A k \in 1..Len(messages) :
                     messages'[k] # messages[k]
                        => /\ messages[k].role = "assistant"
                           /\ \E i \in Sources :
                                 /\ DeliversDelta(i) \/ Errors(i)
                                 /\ eventSources[i].assistantId = messages[k].id
        /\ \A i \in Sources :
              Mounted(eventSources[i].owner)'
                 => \A k \in 1..Len(messages') :
                       messages'[k].id = eventSources'[i].assistantId
                          => messages'[k].content = Concat(eventSources'[i].delivered)
      ]_vars

C26_Witness ==
    \E i, j \in SessionOpenSources :
        /\ i # j
        /\ eventSources[i].delivered = << <<"x">> >>
        /\ eventSources[j].delivered = << <<"y">> >>
        /\ \E k \in PlaceholderAt(i) : messages[k].content = <<"x">>
        /\ \E k \in PlaceholderAt(j) : messages[k].content = <<"y">>

\* C27: once clearChat has removed a live stream's placeholder, every later
\* delta or error of that stream leaves the transcript unchanged; clearChat
\* itself leaves every stream as it is, and a delta leaves its stream open.
C27_LateEventsAfterClear ==
    [][ /\ \A i \in Sources : UpdateOfMissingId(i) => messages' = messages
        /\ (~showPrompts /\ ~showPrompts' /\ messages # <<>> /\ messages' = <<>>)
              => eventSources' = eventSources
        /\ \A i \in Sources :
              DeliversDelta(i) => eventSources'[i].readyState = "open"
      ]_vars

C27_Witness ==
    \E i \in SessionOpenSources :
        /\ cleared
        /\ PlaceholderAt(i) = {}
        /\ messages # <<>>
        /\ eventSources[i].delivered # <<>>
        /\ ENABLED (\E frame \in Frames : Applied(frame) /\ OnMessage(i, frame))

\* C28: the transcript is a sequence of adjacent (user, assistant) pairs:
\* its length is even, each first message of a pair is a user message with
\* status sent and each second one the assistant message created in the
\* same sendMessage (the next id).
C28_TranscriptIsPairs ==
    /\ Len(messages) % 2 = 0
    /\ \A k \in 1..Len(messages) :
          IF k % 2 = 1
          THEN /\ messages[k].role = "user"
               /\ messages[k].status = "sent"
               /\ messages[k + 1].id = messages[k].id + 1
          ELSE messages[k].role = "assistant"

C28_Witness ==
    /\ Len(messages) = 4
    /\ failures = 1
    /\ \E i \in Sources :
          /\ Mounted(eventSources[i].owner)
          /\ eventSources[i].readyState = "closed"
          /\ eventSources[i].droppedAt > 0

\* the input area forwards the draft to sendMessage
Forwards == HandleSubmit /\ calls' = Append(calls, message)

\* C29: the input area forwards a submission exactly when the draft is
\* non-blank, isProcessing is false and Connection State is connected; a
\* forwarded submission clears the draft; while Connection State is not
\* connected the draft stays as it is and no message is appended.  (The
\* forwarding is looked at while turns remain within MaxTurns.)
C29_InputAreaGate ==
    [][ /\ (~showPrompts /\ ~showPrompts' /\ calls' # calls)
            => /\ ~AllBlank(message)
               /\ ~isProcessing
               /\ connectionState.status = "connected"
               /\ calls' = Append(calls, message)
               /\ message' = <<>>
        /\ ( /\ ~showPrompts
             /\ ~AllBlank(message)
             /\ ~isProcessing
             /\ connectionState.status = "connected"
             /\ nextId < 2 * MaxTurns )
            => ENABLED Forwards
        /\ (~showPrompts /\ connectionState.status # "connected")
            => /\ ~ENABLED Forwards
               /\ Len(messages') <= Len(messages)
               /\ message' = message \/ showPrompts'
      ]_vars

C29_Witness ==
    /\ ~showPrompts
    /\ connectionState.status = "loading"
    /\ message = <<" ", "a">>
    /\ Len(messages) = 2
    /\ calls = << <<" ", "a">> >>

====
